---- MODULE Spec2Model ----
(***************************************************************************)
(* Attribute calculation of APDUDS (src/Scripts/attribute_calculator.py):  *)
(* flow_and_height, flow_amount and diameter_calc run on a node table and  *)
(* a conduit table; and the variant sampler (src/Scripts/variant.py):      *)
(* multiple_variant, variation_design and variation_uncertainty draw       *)
(* parameter sets from numpy's global generator, modelled as a position    *)
(* on a cyclic stream that seed sets and every draw advances.              *)
(*                                                                         *)
(* Numbers.  Depths, lengths and slopes are floats in the code; the model  *)
(* draws them from small integers, which floats represent exactly.  The    *)
(* flow unit is pi/4, so that the code's 2 * sqrt(flow / pi) is the square *)
(* root of the modelled flow, and inflow is kept in units of 10^-9 of      *)
(* area * rainfall * perc_inp.                                             *)
(***************************************************************************)
EXTENDS Integers, Sequences, FiniteSets, TLC

\* Bounds of the enumerated inputs.
MaxNodes == 4
MaxLen == 2
MaxOutfalls == 2
MaxMinDepth == 1
MaxMinSlope == 1
MaxSlopeGap == 1
MaxArea == 2
MaxRainfall == 1
MaxPercInp == 1
MaxDiam == 3
MaxFlow == 10
MaxConduits == 2
MaxLenSweep == 3
MaxOverflows == 1
MaxLenTerm == 1
MaxMinDepthSlope == 5
MaxPeriod == 3
MaxRaw == 1
MaxCandidates == 2
MaxVariants == 2
MaxSpacing == 2
MaxMinSlopeVariant == 2
MaxMaxSlopeVariant == 3
MaxExecutions == 2
MaxPeakRain == 2
MaxNodesMalformed == 3
MaxNodesTrim == 3
MaxNodesTies == 5
MaxConduitsTies == 6
MaxNodesSplit == 3
MaxPieces == 3
MaxSpacingSplit == 2

\* Python's None in the "path" column and in the "diameter" column.
None == <<>>
NoDiameter == 0

VARIABLES pc, nodes, edges, settings, i, err,
          rnd, random_settings, variants_design, variants_uncertain,
          variant_j, input, runs

\* The state of the variant sampler (src/Scripts/variant.py).
sampler ==
    <<rnd, random_settings, variants_design, variants_uncertain, variant_j,
      input, runs>>

vars == <<pc, nodes, edges, settings, i, err, sampler>>

\* The sampler is not running: the attribute calculation is called on its own.
SamplerIdle ==
    /\ rnd = [stream |-> <<>>, pos |-> 0]
    /\ random_settings = None
    /\ variants_design = <<>>
    /\ variants_uncertain = <<>>
    /\ variant_j = 0
    /\ input = None
    /\ runs = <<>>

----------------------------------------------------------------------------
\* Helpers on tables.

Range(s) == {s[k] : k \in DOMAIN s}

Min(S) == CHOOSE x \in S : \A y \in S : x <= y

NodeIds(ns) == DOMAIN ns

\* edge_set = [set([edges["from"][i], edges["to"][i]]) ...]
edge_set(es) == [k \in DOMAIN es |-> {es[k].from, es[k].to}]

\* edge_set.index(set([a, b])): the first conduit with these two endpoints.
EdgeIndex(es, a, b) ==
    Min({k \in DOMAIN es : edge_set(es)[k] = {a, b}})

HasEdge(es, a, b) == \E k \in DOMAIN es : edge_set(es)[k] = {a, b}

\* nx.Graph built by intialize: neighbours and weights come from the conduits.
Neighbours(es, n) ==
    {es[k].to : k \in {j \in DOMAIN es : es[j].from = n /\ es[j].to # n}}
        \cup {es[k].from : k \in {j \in DOMAIN es : es[j].to = n /\ es[j].from # n}}

\* value_counts of the "from" column alone.
Connections_from_only(es, n) ==
    Cardinality({k \in DOMAIN es : es[k].from = n})

\* value_counts of the melted from/to columns; a node no conduit names gets
\* NaN, which no degree threshold equals: modelled as 0.
Connections(es, n) ==
    Cardinality({k \in DOMAIN es : es[k].from = n})
        + Cardinality({k \in DOMAIN es : es[k].to = n})

----------------------------------------------------------------------------
\* The path router: nx.single_source_dijkstra(graph, start, target).

RECURSIVE PathsFrom(_, _, _)
PathsFrom(es, p, target) ==
    LET last == p[Len(p)]
    IN  IF last = target THEN {p}
        ELSE UNION {PathsFrom(es, Append(p, v), target) :
                      v \in {w \in Neighbours(es, last) :
                               \A k \in DOMAIN p : p[k] # w}}

SimplePaths(es, start, target) == PathsFrom(es, <<start>>, target)

RECURSIVE PathLength(_, _)
PathLength(es, p) ==
    IF Len(p) < 2 THEN 0
    ELSE es[EdgeIndex(es, p[1], p[2])].length + PathLength(es, Tail(p))

Reachable(es, start, target) == SimplePaths(es, start, target) # {}

Dist(es, start, target) ==
    Min({PathLength(es, p) : p \in SimplePaths(es, start, target)})

\* The paths a Dijkstra call may return: every path of minimum total length.
\* Which of several equal ones is returned depends on the search order and,
\* the lengths being floats, on the rounding of the sums along each path, which
\* differs from one start node to the next.
single_source_dijkstra(es, start, target) ==
    {p \in SimplePaths(es, start, target) :
        PathLength(es, p) = Dist(es, start, target)}

\* np.inf: larger than the length of every path.
RECURSIVE TotalLength(_)
TotalLength(es) ==
    IF es = <<>> THEN 0 ELSE Head(es).length + TotalLength(Tail(es))

Infinity(es) == TotalLength(es) + 1

\* determine_path: the loop over ends, keeping the first strictly shorter one.
RECURSIVE determine_path_loop(_, _, _, _, _, _)
determine_path_loop(es, start, ends, k, shortest_length, best_paths) ==
    IF k > Len(ends) THEN best_paths
    ELSE LET length == Dist(es, start, ends[k])
         IN  IF length < shortest_length
             THEN determine_path_loop(es, start, ends, k + 1, length,
                                      single_source_dijkstra(es, start, ends[k]))
             ELSE determine_path_loop(es, start, ends, k + 1,
                                      shortest_length, best_paths)

determine_path(es, start, ends) ==
    determine_path_loop(es, start, ends, 1, Infinity(es), {<<>>})

\* nx.single_source_dijkstra raises NetworkXNoPath for an unreachable target.
NoPath(es, start, ends) ==
    \E k \in DOMAIN ends : ~Reachable(es, start, ends[k])

----------------------------------------------------------------------------
\* set_paths, set_depth, uphold_max_slope, reset_direction.

SubSeqFrom(path, k) == SubSeq(path, k, Len(path))

RECURSIVE set_paths_from(_, _, _)
set_paths_from(ns, path, k) ==
    IF k > Len(path) THEN ns
    ELSE LET node == path[k]
             ns2 == IF ns[node].path = None
                    THEN [ns EXCEPT ![node].path = SubSeqFrom(path, k)]
                    ELSE ns
         IN  set_paths_from(ns2, path, k + 1)

\* set_paths without the slice: every node gets the whole routed path.
set_paths_unsliced(ns, path) ==
    [n \in NodeIds(ns) |->
        IF n \in Range(path) /\ ns[n].path = None
        THEN [ns[n] EXCEPT !.path = path]
        ELSE ns[n]]

\* set_paths without the test of line 165: a node on the path gets the
\* suffix from its position whether it has a path or not.
set_paths_overwrite(ns, path) ==
    [n \in NodeIds(ns) |->
        IF n \in Range(path)
        THEN [ns[n] EXCEPT !.path =
                 SubSeqFrom(path, Min({k \in DOMAIN path : path[k] = n}))]
        ELSE ns[n]]

set_paths(ns, path) == set_paths_from(ns, path, 1)

RECURSIVE set_depth_from(_, _, _, _, _)
set_depth_from(ns, es, path, min_slope, k) ==
    IF k > Len(path) - 1 THEN ns
    ELSE LET from_node == path[k]
             to_node == path[k + 1]
             from_depth == ns[from_node].depth
             length == es[EdgeIndex(es, from_node, to_node)].length
             new_to_depth == from_depth + min_slope * length
             ns2 == IF new_to_depth > ns[to_node].depth
                    THEN [ns EXCEPT ![to_node].depth = new_to_depth]
                    ELSE ns
         IN  set_depth_from(ns2, es, path, min_slope, k + 1)

\* set_depth that adds the drop of each conduit to the depth of the first
\* node of the path, not to the depth of the node before.
set_depth_from_start(ns, es, path, min_slope) ==
    [n \in NodeIds(ns) |->
        LET ks == {k \in 2..Len(path) : path[k] = n}
            new_to_depth(k) ==
                ns[path[1]].depth
                    + min_slope * es[EdgeIndex(es, path[k - 1], path[k])].length
        IN  IF ks # {} /\ new_to_depth(Min(ks)) > ns[n].depth
            THEN [ns[n] EXCEPT !.depth = new_to_depth(Min(ks))]
            ELSE ns[n]]

set_depth(ns, es, path, min_slope) == set_depth_from(ns, es, path, min_slope, 1)

\* The comparison of line 220,
\*     depth[lower] - depth[higher] / length > max_slope,
\* in which the division binds tighter than the subtraction; both sides are
\* multiplied by length (> 0) to stay in the integers.
ExceedsMaxSlope(lower_depth, higher_depth, length, max_slope) ==
    lower_depth * length - higher_depth > max_slope * length

RECURSIVE uphold_path(_, _, _, _, _)
uphold_path(ns, es, path, max_slope, k) ==
    IF k > Len(path) - 2 THEN ns
    ELSE LET lower_node == path[Len(path) - k]
             higher_node == path[Len(path) - 1 - k]
             length == es[EdgeIndex(es, lower_node, higher_node)].length
             ns2 == IF ExceedsMaxSlope(ns[lower_node].depth,
                                       ns[higher_node].depth, length, max_slope)
                    THEN [ns EXCEPT ![higher_node].depth =
                                     ns[lower_node].depth - length * max_slope]
                    ELSE ns
         IN  uphold_path(ns2, es, path, max_slope, k + 1)

RECURSIVE uphold_rows(_, _, _, _)
uphold_rows(ns, es, max_slope, n) ==
    IF n \notin NodeIds(ns) THEN ns
    ELSE uphold_rows(uphold_path(ns, es, ns[n].path, max_slope, 0),
                     es, max_slope, n + 1)

\* uphold_max_slope walking each path forward, from the node to the outfall.
RECURSIVE uphold_path_forward(_, _, _, _, _)
uphold_path_forward(ns, es, path, max_slope, k) ==
    IF k > Len(path) - 1 THEN ns
    ELSE LET higher_node == path[k]
             lower_node == path[k + 1]
             length == es[EdgeIndex(es, lower_node, higher_node)].length
             ns2 == IF ExceedsMaxSlope(ns[lower_node].depth,
                                       ns[higher_node].depth, length, max_slope)
                    THEN [ns EXCEPT ![higher_node].depth =
                                     ns[lower_node].depth - length * max_slope]
                    ELSE ns
         IN  uphold_path_forward(ns2, es, path, max_slope, k + 1)

RECURSIVE uphold_rows_forward(_, _, _, _)
uphold_rows_forward(ns, es, max_slope, n) ==
    IF n \notin NodeIds(ns) THEN ns
    ELSE uphold_rows_forward(uphold_path_forward(ns, es, ns[n].path, max_slope, 1),
                             es, max_slope, n + 1)

uphold_max_slope_forward(ns, es, max_slope) ==
    uphold_rows_forward(ns, es, max_slope, 0)

uphold_max_slope(ns, es, max_slope) == uphold_rows(ns, es, max_slope, 0)

\* reset_direction with the comparison of line 238 turned round.
reset_direction_reversed(ns, es) ==
    [k \in DOMAIN es |->
        IF ns[es[k].from].depth < ns[es[k].to].depth
        THEN [es[k] EXCEPT !.from = es[k].to, !.to = es[k].from]
        ELSE es[k]]

reset_direction(ns, es) ==
    [k \in DOMAIN es |->
        IF ns[es[k].from].depth > ns[es[k].to].depth
        THEN [es[k] EXCEPT !.from = es[k].to, !.to = es[k].from]
        ELSE es[k]]

\* len(path) of a row whose path is still None raises TypeError.
SomePathIsNone(ns) == \E n \in NodeIds(ns) : ns[n].path = None

----------------------------------------------------------------------------
\* flow_amount and inflow.

inflow(area, st) == area * st.rainfall * st.perc_inp

\* flow_amount with = in place of +=: a conduit keeps the last inflow only.
RECURSIVE flow_path_assign(_, _, _, _)
flow_path_assign(es, path, amount, j) ==
    IF j > Len(path) - 1 THEN es
    ELSE LET k == EdgeIndex(es, path[j], path[j + 1])
         IN  flow_path_assign([es EXCEPT ![k].flow = amount], path, amount, j + 1)

RECURSIVE flow_path(_, _, _, _)
flow_path(es, path, amount, j) ==
    IF j > Len(path) - 1 THEN es
    ELSE LET k == EdgeIndex(es, path[j], path[j + 1])
         IN  flow_path([es EXCEPT ![k].flow = es[k].flow + amount],
                       path, amount, j + 1)

RECURSIVE flow_rows(_, _, _)
flow_rows(ns, es, n) ==
    IF n \notin NodeIds(ns) THEN es
    ELSE flow_rows(ns, flow_path(es, ns[n].path, ns[n].inflow, 1), n + 1)

flow_amount_edges(ns, es) ==
    flow_rows(ns, [k \in DOMAIN es |-> [es[k] EXCEPT !.flow = 0]], 0)

----------------------------------------------------------------------------
\* diameter_calc, the Scripts revision and the packaged APDUDS revision.
\* With the flow unit pi/4, precise_diam = 2 * sqrt(flow / pi) is sqrt(flow);
\* a comparison of a size with precise_diam is made on the squares.

\* size - precise_diam > 0
SizeAbovePrecise(size, flow) == size * size > flow

\* precise_diam > diam_list[-1]
PreciseAboveLast(flow, diam_list) ==
    flow > diam_list[Len(diam_list)] * diam_list[Len(diam_list)]

diameter_of(flow, diam_list) ==
    IF flow = 0 THEN diam_list[1]
    ELSE IF PreciseAboveLast(flow, diam_list) THEN diam_list[Len(diam_list)]
    ELSE LET larger == {j \in DOMAIN diam_list : SizeAbovePrecise(diam_list[j], flow)}
         IN  IF larger = {} THEN NoDiameter ELSE diam_list[Min(larger)]

diameter_calc(es, diam_list) ==
    [k \in DOMAIN es |-> [es[k] EXCEPT !.diameter = diameter_of(es[k].flow, diam_list)]]

Max(S) == CHOOSE x \in S : \A y \in S : x >= y

\* The packaged loop has no break: the last larger size is the one kept.
diameter_of_APDUDS(flow, diam_list) ==
    IF flow = 0 THEN diam_list[1]
    ELSE LET larger == {j \in DOMAIN diam_list : SizeAbovePrecise(diam_list[j], flow)}
         IN  IF larger = {} THEN NoDiameter ELSE diam_list[Max(larger)]

diameter_calc_APDUDS(es, diam_list) ==
    [k \in DOMAIN es |->
        [es[k] EXCEPT !.diameter = diameter_of_APDUDS(es[k].flow, diam_list)]]

----------------------------------------------------------------------------
\* Inputs.

RECURSIVE PairSeq(_, _, _)
PairSeq(N, a, b) ==
    IF a >= N - 1 THEN <<>>
    ELSE IF b >= N THEN PairSeq(N, a + 1, a + 2)
    ELSE <<<<a, b>>>> \o PairSeq(N, a, b + 1)

PairSet(N) == {<<a, b>> \in (0..(N - 1)) \X (0..(N - 1)) : a < b}

\* The conduit table of a simple graph (cleaner drops self loops and
\* duplicates): w gives each pair of nodes its length, 0 for no conduit.
\* Rows are listed by endpoint pair, the lower index as "from".
EdgeTable(N, w) ==
    LET Present(p) == w[p] > 0
        ps == SelectSeq(PairSeq(N, 0, 1), Present)
    IN  [k \in DOMAIN ps |->
            [from |-> ps[k][1], to |-> ps[k][2], length |-> w[ps[k]],
             flow |-> 0, diameter |-> NoDiameter]]

NodeTable(N) ==
    [n \in 0..(N - 1) |->
        [considered |-> FALSE, depth |-> 0, path |-> None, connections |-> 0,
         area |-> 0, inflow |-> 0]]

\* Lists of distinct node indices.
DistinctSeqs(S, maxLen) ==
    UNION {{s \in [1..m -> S] : \A a, b \in 1..m : a # b => s[a] # s[b]} :
             m \in 0..maxLen}

\* Ascending catalogs of positive sizes.
Catalogs ==
    UNION {{s \in [1..m -> 1..MaxDiam] : \A a, b \in 1..m : a < b => s[a] < s[b]} :
             m \in 1..MaxDiam}

SettingsSet(N) ==
    LET base == [outfalls : DistinctSeqs(0..(N - 1), MaxOutfalls) \ {<<>>},
                 min_depth : 1..MaxMinDepth,
                 min_slope : 1..MaxMinSlope,
                 rainfall : 1..MaxRainfall,
                 perc_inp : 1..MaxPercInp,
                 diam_list : {[k \in 1..MaxDiam |-> k]}]
    IN  base \cup
        {[outfalls |-> b.outfalls, min_depth |-> b.min_depth,
          min_slope |-> b.min_slope, rainfall |-> b.rainfall,
          perc_inp |-> b.perc_inp, diam_list |-> b.diam_list,
          max_slope |-> b.min_slope + g] : b \in base, g \in 1..MaxSlopeGap}

\* The nodes joined to the nodes of S by conduits.
RECURSIVE Component(_, _)
Component(es, S) ==
    LET T == S \cup UNION {Neighbours(es, n) : n \in S}
    IN  IF T = S THEN S ELSE Component(es, T)

Connected(ns, es) ==
    \A a \in NodeIds(ns) : Component(es, {a}) = NodeIds(ns)

Init ==
    /\ pc = "intialize"
    /\ i = 0
    /\ err = "none"
    /\ SamplerIdle
    /\ \E N \in 2..MaxNodes :
         /\ nodes = NodeTable(N)
         /\ \E w \in [PairSet(N) -> 0..MaxLen] : edges = EdgeTable(N, w)
         /\ settings \in SettingsSet(N)
    /\ Connected(nodes, edges)

----------------------------------------------------------------------------
\* flow_and_height, lines 64-70: intialize and the pre-marked outfalls.
Intialize ==
    /\ pc = "intialize"
    /\ nodes' = [n \in NodeIds(nodes) |->
                   [nodes[n] EXCEPT !.considered = (n \in Range(settings.outfalls)),
                                    !.depth = settings.min_depth,
                                    !.path = None,
                                    !.connections = Connections(edges, n)]]
    /\ i' = 1
    /\ pc' = "sweep"
    /\ UNCHANGED <<edges, settings, err, sampler>>

AllConsidered(ns) == \A n \in NodeIds(ns) : ns[n].considered

\* The unconsidered nodes, whatever their degree.
LeafNodes_any_degree == {n \in NodeIds(nodes) : ~nodes[n].considered}

\* The unconsidered nodes of the current degree group.
LeafNodes == {n \in NodeIds(nodes) : nodes[n].connections = i /\ ~nodes[n].considered}

MarkConsidered(ns, path) ==
    [n \in NodeIds(ns) |->
        IF n \in Range(path) THEN [ns[n] EXCEPT !.considered = TRUE] ELSE ns[n]]

\* One pass of the body of the for loop, lines 77-82, for the next
\* unconsidered node of the degree group.  With no end point determine_path
\* returns [] and the pass changes nothing: the loop goes on to the next node
\* of the group and then to line 83.
SolveNode ==
    /\ pc = "sweep"
    /\ ~AllConsidered(nodes)
    /\ LeafNodes # {}
    /\ settings.outfalls # <<>>
    /\ LET node == Min(LeafNodes)
       IN  IF NoPath(edges, node, settings.outfalls)
           THEN /\ pc' = "error"
                /\ err' = "NetworkXNoPath"
                /\ UNCHANGED <<nodes, edges, settings, i, sampler>>
           ELSE /\ \E path \in determine_path(edges, node, settings.outfalls) :
                     nodes' = MarkConsidered(
                                set_depth(set_paths(nodes, path), edges, path,
                                          settings.min_slope), path)
                /\ UNCHANGED <<pc, edges, settings, i, err, sampler>>

\* Line 83: the degree group is exhausted, i += 1.
NextDegree ==
    /\ pc = "sweep"
    /\ ~AllConsidered(nodes)
    /\ settings.outfalls # <<>> => LeafNodes = {}
    /\ i < Cardinality(NodeIds(nodes))
    /\ i' = i + 1
    /\ UNCHANGED <<pc, nodes, edges, settings, err, sampler>>

\* Lines 85-86.
UpholdMaxSlope ==
    /\ pc = "sweep"
    /\ AllConsidered(nodes)
    /\ "max_slope" \in DOMAIN settings
    /\ IF SomePathIsNone(nodes)
       THEN /\ pc' = "error"
            /\ err' = "TypeError"
            /\ UNCHANGED <<nodes, edges, settings, i, sampler>>
       ELSE /\ nodes' = uphold_max_slope(nodes, edges, settings.max_slope)
            /\ pc' = "reset_direction"
            /\ UNCHANGED <<edges, settings, i, err, sampler>>

\* Line 88.
ResetDirection ==
    /\ \/ pc = "reset_direction"
       \/ pc = "sweep" /\ AllConsidered(nodes) /\ "max_slope" \notin DOMAIN settings
    /\ edges' = reset_direction(nodes, edges)
    /\ pc' = "flow_amount"
    /\ UNCHANGED <<nodes, settings, i, err, sampler>>

\* The areas voronoi_area may give: every cell has a positive volume.
voronoi_area(ns) == [NodeIds(ns) -> 1..MaxArea]

\* flow_amount on the tables flow_and_height returned, with the areas of
\* voronoi_area.
FlowAmount ==
    /\ pc = "flow_amount"
    /\ \E area \in voronoi_area(nodes) :
         LET ns == [n \in NodeIds(nodes) |->
                      [nodes[n] EXCEPT !.area = area[n],
                                       !.inflow = inflow(area[n], settings)]]
         IN  IF SomePathIsNone(ns)
             THEN /\ pc' = "error"
                  /\ err' = "TypeError"
                  /\ UNCHANGED <<nodes, edges, settings, i, sampler>>
             ELSE /\ nodes' = ns
                  /\ edges' = flow_amount_edges(ns, edges)
                  /\ pc' = "diameter_calc"
                  /\ UNCHANGED <<settings, i, err, sampler>>

DiameterCalc ==
    /\ pc = "diameter_calc"
    /\ edges' = diameter_calc(edges, settings.diam_list)
    /\ pc' = "done"
    /\ UNCHANGED <<nodes, settings, i, err, sampler>>

Next ==
    \/ Intialize
    \/ SolveNode
    \/ NextDegree
    \/ UpholdMaxSlope
    \/ ResetDirection
    \/ FlowAmount
    \/ DiameterCalc

Spec == Init /\ [][Next]_vars

----------------------------------------------------------------------------
\* cleaner_and_trimmer, called on the tables that diameter_calc returned.

\* 0.001 m3/s, the precision that flows and inflows are rounded to, in the
\* unit of the modelled flow: an area of 1 gives a third of a litre per second.
FlowQuantum == 3

\* round(decimals=3): to the nearest multiple of FlowQuantum; with an odd
\* quantum no flow lies half way between two multiples.
round_flow(flow) ==
    ((2 * flow + FlowQuantum) \div (2 * FlowQuantum)) * FlowQuantum

\* Lines 344-364.  The columns "considered", "path" and "connections" are
\* dropped; depths and areas are whole numbers of their units, which the
\* rounding of lines 353-354 leaves as they are.
CleanerAndTrimmer ==
    /\ pc = "done"
    /\ nodes' = [n \in NodeIds(nodes) |->
                   [depth |-> nodes[n].depth, area |-> nodes[n].area,
                    inflow |-> round_flow(nodes[n].inflow)]]
    /\ LET NonZero(e) == e.flow # 0
           rounded == [k \in DOMAIN edges |->
                         [edges[k] EXCEPT !.flow = round_flow(edges[k].flow)]]
       IN  edges' = SelectSeq(rounded, NonZero)
    /\ pc' = "cleaned"
    /\ UNCHANGED <<settings, i, err, sampler>>

InitTrim ==
    /\ Init
    /\ Cardinality(NodeIds(nodes)) <= MaxNodesTrim

NextTrim ==
    \/ Next
    \/ CleanerAndTrimmer

SpecTrim == InitTrim /\ [][NextTrim]_vars

----------------------------------------------------------------------------
\* flow_and_height and flow_amount on connected networks of MaxNodesTies
\* nodes with at most MaxConduitsTies conduits, one outfall and no max_slope:
\* large enough for two routes that share a conduit and part further on.

InitTies ==
    /\ pc = "intialize"
    /\ i = 0
    /\ err = "none"
    /\ SamplerIdle
    /\ nodes = NodeTable(MaxNodesTies)
    /\ \E w \in [PairSet(MaxNodesTies) -> 0..MaxLen] :
         edges = EdgeTable(MaxNodesTies, w)
    /\ Len(edges) <= MaxConduitsTies
    /\ settings \in {st \in SettingsSet(MaxNodesTies) :
                        /\ st.outfalls = <<MaxNodesTies - 1>>
                        /\ "max_slope" \notin DOMAIN st}
    /\ Connected(nodes, edges)

NextTies ==
    \/ Intialize
    \/ SolveNode
    \/ NextDegree
    \/ ResetDirection
    \/ FlowAmount

SpecTies == InitTies /\ [][NextTies]_vars

----------------------------------------------------------------------------
\* The degree sweep of flow_and_height alone (lines 64-83), on connected
\* graphs with one outfall and conduits of up to MaxLenSweep.

InitSweep ==
    /\ pc = "intialize"
    /\ i = 0
    /\ err = "none"
    /\ SamplerIdle
    /\ \E N \in 2..MaxNodes :
         /\ nodes = NodeTable(N)
         /\ \E w \in [PairSet(N) -> 0..MaxLenSweep] : edges = EdgeTable(N, w)
         /\ settings \in {st \in SettingsSet(N) :
                             Len(st.outfalls) = 1 /\ "max_slope" \notin DOMAIN st}
    /\ Connected(nodes, edges)

NextSweep ==
    \/ Intialize
    \/ SolveNode
    \/ NextDegree

SpecSweep == InitSweep /\ [][NextSweep]_vars

----------------------------------------------------------------------------
\* The degree sweep on any conduit table, connected or not, with the
\* "overflows" key that terminal.py and tester put in the settings.

SolveSettings(N) ==
    {[outfalls |-> b.outfalls, overflows |-> o, min_depth |-> b.min_depth,
      min_slope |-> b.min_slope, rainfall |-> b.rainfall,
      perc_inp |-> b.perc_inp, diam_list |-> b.diam_list] :
        b \in {st \in SettingsSet(N) : "max_slope" \notin DOMAIN st},
        o \in DistinctSeqs(0..(N - 1), MaxOverflows)}

InitSolve ==
    /\ pc = "intialize"
    /\ i = 0
    /\ err = "none"
    /\ SamplerIdle
    /\ \E N \in 2..MaxNodes :
         /\ nodes = NodeTable(N)
         /\ \E w \in [PairSet(N) -> 0..MaxLen] : edges = EdgeTable(N, w)
         /\ settings \in {st \in SolveSettings(N) :
                             Range(st.overflows) \cap Range(st.outfalls) = {}}

NextSolve ==
    \/ Intialize
    \/ SolveNode
    \/ NextDegree

SpecSolve == InitSolve /\ [][NextSolve]_vars

----------------------------------------------------------------------------
\* The degree sweep on inputs that the dialogue of terminal.py does not rule
\* out: an empty list of outfalls, and a conduit table with a row that names
\* the node index N, one past the last row of the node table.

MalformedSettings(N) ==
    {[b EXCEPT !.outfalls = o] :
        b \in {st \in SettingsSet(N) : "max_slope" \notin DOMAIN st},
        o \in DistinctSeqs(0..(N - 1), MaxOutfalls)}

DanglingConduits(N) ==
    {<<>>} \cup
    {<<[from |-> a, to |-> N, length |-> l, flow |-> 0,
        diameter |-> NoDiameter]>> : a \in 0..(N - 1), l \in 1..MaxLen}

InitMalformed ==
    /\ pc = "intialize"
    /\ i = 0
    /\ err = "none"
    /\ SamplerIdle
    /\ \E N \in 2..MaxNodesMalformed :
         /\ nodes = NodeTable(N)
         /\ \E w \in [PairSet(N) -> 0..MaxLen], d \in DanglingConduits(N) :
              edges = EdgeTable(N, w) \o d
         /\ settings \in MalformedSettings(N)

SpecMalformed == InitMalformed /\ [][NextSolve]_vars

----------------------------------------------------------------------------
\* The degree sweep on connected graphs with one or two outfalls.  The
\* program is sequential and runs on: a step that can be taken is taken.

InitTerm ==
    /\ pc = "intialize"
    /\ i = 0
    /\ err = "none"
    /\ SamplerIdle
    /\ \E N \in 2..MaxNodes :
         /\ nodes = NodeTable(N)
         /\ \E w \in [PairSet(N) -> 0..MaxLenTerm] : edges = EdgeTable(N, w)
         /\ settings \in {st \in SettingsSet(N) : "max_slope" \notin DOMAIN st}
    /\ Connected(nodes, edges)

SpecTerm == InitTerm /\ [][NextSolve]_vars /\ WF_vars(NextSolve)

----------------------------------------------------------------------------
\* flow_and_height up to the max-slope pass (lines 64-86), with max_slope
\* configured and min_depth of up to MaxMinDepthSlope: with the depths well
\* above the slopes, as they are in metres, the test of line 220 is true along
\* whole paths and a correction is carried on upstream.

SlopeSettings(N) ==
    {[b EXCEPT !.min_depth = d] :
        b \in {st \in SettingsSet(N) : "max_slope" \in DOMAIN st},
        d \in 1..MaxMinDepthSlope}

InitSlope ==
    /\ pc = "intialize"
    /\ i = 0
    /\ err = "none"
    /\ SamplerIdle
    /\ \E N \in 2..MaxNodes :
         /\ nodes = NodeTable(N)
         /\ \E w \in [PairSet(N) -> 0..MaxLen] : edges = EdgeTable(N, w)
         /\ settings \in SlopeSettings(N)
    /\ Connected(nodes, edges)

NextSlope ==
    \/ Intialize
    \/ SolveNode
    \/ NextDegree
    \/ UpholdMaxSlope

SpecSlope == InitSlope /\ [][NextSlope]_vars

----------------------------------------------------------------------------
\* splitter of src/Scripts/osm_extractor.py, called by multiple_variant.

\* np.ceil taken for the whole part of the quotient.
Ceil_floor(a, b) == a \div b

Ceil(a, b) == (a + b - 1) \div b

\* The node table with amount rows appended (nodes.loc[len(nodes)] = ...).
AppendNodes(ns, amount) ==
    [n \in 0..(Cardinality(NodeIds(ns)) + amount - 1) |->
        IF n \in NodeIds(ns) THEN ns[n] ELSE NodeTable(1)[0]]

\* The chain that replaces a conduit: from its "from" node through the new
\* nodes first, first + 1, ... to its "to" node.
SplitRows(line, first, amount, new_length) ==
    [k \in 1..(amount + 1) |->
        [from |-> IF k = 1 THEN line.from ELSE first + k - 2,
         to |-> IF k = amount + 1 THEN line.to ELSE first + k - 1,
         length |-> new_length, flow |-> 0, diameter |-> NoDiameter]]

\* new_length = length / (amount + 1): the lengths and spacings drawn here
\* make the quotient a whole number.
RECURSIVE splitter_rows(_, _, _, _, _)
splitter_rows(ns, es, new_edges, max_space, k) ==
    IF k > Len(es) THEN [nodes |-> ns, edges |-> new_edges]
    ELSE LET line == es[k]
             amount == Ceil(line.length, max_space) - 1
             new_length == line.length \div (amount + 1)
         IN  IF line.length <= max_space
             THEN splitter_rows(ns, es,
                      Append(new_edges,
                             [from |-> line.from, to |-> line.to,
                              length |-> line.length, flow |-> 0,
                              diameter |-> NoDiameter]),
                      max_space, k + 1)
             ELSE splitter_rows(AppendNodes(ns, amount), es,
                      new_edges \o SplitRows(line, Cardinality(NodeIds(ns)),
                                             amount, new_length),
                      max_space, k + 1)

splitter(ns, es, max_space) == splitter_rows(ns, es, <<>>, max_space, 1)

\* splitter as a function of the tables and the spacing.  Lengths and
\* spacings are multiples of SplitUnit, so that every chain of up to four
\* conduits has conduits of a whole length.
SplitUnit == 12

InitSplit ==
    /\ pc = "splitter"
    /\ i = 0
    /\ err = "none"
    /\ rnd = [stream |-> <<>>, pos |-> 0]
    /\ random_settings = None
    /\ variants_design = <<>>
    /\ variants_uncertain = <<>>
    /\ variant_j = 0
    /\ runs = <<>>
    /\ \E N \in 2..MaxNodesSplit :
         /\ nodes = NodeTable(N)
         /\ \E w \in [PairSet(N) -> {SplitUnit * l : l \in 0..MaxPieces}] :
              edges = EdgeTable(N, w)
    /\ settings \in [spacing : {SplitUnit * m : m \in 1..MaxSpacingSplit}]
    /\ input = [nodes |-> nodes, edges |-> edges]

\* nodes, edges = splitter(nodes, edges, spacing)
Splitter ==
    /\ pc = "splitter"
    /\ LET split == splitter(nodes, edges, settings.spacing)
       IN  /\ nodes' = split.nodes
           /\ edges' = split.edges
    /\ pc' = "split"
    /\ UNCHANGED <<settings, i, err, sampler>>

NextSplit == Splitter

SpecSplit == InitSplit /\ [][NextSplit]_vars

----------------------------------------------------------------------------
\* The variant sampler: multiple_variant, variation_design and
\* variation_uncertainty of src/Scripts/variant.py.
\*
\* numpy's global generator is deterministic: its state is a position on the
\* one cycle of its outputs.  The model keeps the cycle ("stream": MaxPeriod
\* outputs in 0..MaxRaw) and the position on it ("pos").

\* The generator left as it is, as if rnd.seed were not called.
seed_not_called(g, s) == g

\* rnd.seed(s): the position depends on the seed alone.
seed(g, s) == [g EXCEPT !.pos = s % Len(g.stream)]

\* The next output, and the generator after it.
raw(g) == g.stream[g.pos + 1]

advance(g) == [g EXCEPT !.pos = (g.pos + 1) % Len(g.stream)]

RECURSIVE advanced(_, _)
advanced(g, k) == IF k = 0 THEN g ELSE advanced(advance(g), k - 1)

\* rnd.choice(list, 1)[0]
choice(g, list) == list[(raw(g) % Len(list)) + 1]

\* rnd.choice(list, size, replace=True)
RECURSIVE choices(_, _, _)
choices(g, list, size) ==
    IF size = 0 THEN <<>>
    ELSE <<choice(g, list)>> \o choices(advance(g), list, size - 1)

\* rnd.random_integers(low, high), for low <= high
random_integers(g, low, high) == low + (raw(g) % (high - low + 1))

\* rnd.random_integers(2, min(4, len(overflows))) raises ValueError when
\* fewer than two overflows are configured.
RandomIntegersRaises(st, area) == area > 4 /\ Len(st.overflows) < 2

\* variation_design, lines 140-154: the draws before the max_slope loop.
variation_design_draws(st, area, g) ==
    LET spacing == choice(g, st.spacing)
        g1 == advance(g)
        outfalls == choices(g1, st.outfalls, 1)
        g2 == advance(g1)
        min_depth == choice(g2, st.min_depth)
        g3 == advance(g2)
        min_slope == choice(g3, st.min_slope)
        g4 == advance(g3)
        size == IF area > 4
                THEN random_integers(g4, 2, Min({4, Len(st.overflows)}))
                ELSE IF area > 1 THEN random_integers(g4, 1, 3) ELSE 1
        g5 == IF area > 1 THEN advance(g4) ELSE g4
        overflows == choices(g5, st.overflows, size)
    IN  [random_settings |->
             [st EXCEPT !.spacing = spacing, !.outfalls = outfalls,
                        !.min_depth = min_depth, !.min_slope = min_slope,
                        !.overflows = overflows],
         rnd |-> advanced(g5, size)]

\* The test of line 159 with >= in place of >.
AcceptMaxSlope_or_equal(max_slope, min_slope) == max_slope >= min_slope

\* Line 159.
AcceptMaxSlope(max_slope, min_slope) == max_slope > min_slope

\* settings[key] = value on a dict that may not have the key yet.
SetKey(st, key, value) ==
    [k \in DOMAIN st \cup {key} |-> IF k = key THEN value ELSE st[k]]

\* settings_uncertainty of terminal.py with the answers of the user.
settings_uncertainty(st, peak_rain, perc_inp) ==
    SetKey(SetKey(st, "peak_rain", peak_rain), "perc_inp", perc_inp)

\* variation_uncertainty, lines 179-181.
variation_uncertainty(st, g) ==
    LET peak_rain == choice(g, st.peak_rain)
        perc_inp == choice(advance(g), st.perc_inp)
    IN  [random_settings |->
             [st EXCEPT !.peak_rain = peak_rain, !.perc_inp = perc_inp],
         rnd |-> advanced(g, 2)]

\* Lists of candidates as the user enters them.
Lists(S) ==
    {s \in DistinctSeqs(S, MaxCandidates) \ {<<>>} :
        \A a, b \in DOMAIN s : a < b => s[a] < s[b]}

\* The areas [km2] of the three branches of lines 148-154.
Areas == {1, 2, 5}

\* The settings of variant_input; with max_slope, the check of terminal.py
\* line 305 has passed.
VariantSettings ==
    LET base == [variants : 1..MaxVariants,
                 spacing : Lists(1..MaxSpacing),
                 outfalls : Lists(0..1),
                 overflows : Lists(0..1),
                 min_depth : Lists(1..MaxMinDepth),
                 min_slope : Lists(1..MaxMinSlopeVariant)]
    IN  base \cup
        UNION {{SetKey(b, "max_slope", m) :
                  m \in {l \in Lists(2..MaxMaxSlopeVariant) :
                           ~(Max(Range(l)) <= Min(Range(b.min_slope)))}} :
               b \in base}

\* The arguments of multiple_variant and the answers the user gives to
\* design_choice and settings_uncertainty.
VariantInputs ==
    {[nodes |-> NodeTable(2), edges |-> EdgeTable(2, w), settings |-> st,
      area |-> a, favourite |-> f, peak_rain |-> r, perc_inp |-> p] :
        w \in [PairSet(2) -> {MaxLen}], st \in VariantSettings, a \in Areas,
        f \in 1..MaxVariants, r \in Lists(1..MaxPeakRain),
        p \in Lists(1..MaxPercInp)}

InitVariant ==
    /\ pc = "multiple_variant"
    /\ i = 0
    /\ err = "none"
    /\ \E stream \in [1..MaxPeriod -> 0..MaxRaw], pos \in 0..(MaxPeriod - 1) :
         rnd = [stream |-> stream, pos |-> pos]
    /\ random_settings = None
    /\ variants_design = <<>>
    /\ variants_uncertain = <<>>
    /\ variant_j = 0
    /\ runs = <<>>
    /\ input \in {x \in VariantInputs : x.favourite <= x.settings.variants}
    /\ nodes = input.nodes
    /\ edges = input.edges
    /\ settings = input.settings

\* multiple_variant, lines 41-42.
MultipleVariant ==
    /\ pc = "multiple_variant"
    /\ nodes' = input.nodes
    /\ edges' = input.edges
    /\ settings' = input.settings
    /\ rnd' = seed(rnd, 1)
    /\ random_settings' = None
    /\ variants_design' = <<>>
    /\ variants_uncertain' = <<>>
    /\ variant_j' = 0
    /\ pc' = "design_round"
    /\ UNCHANGED <<i, err, input, runs>>

\* One pass of the loop of lines 43-58 up to the max_slope loop of
\* variation_design, and to its end when no max_slope is configured.  The
\* split tables and the result of attribute_calculation are local to the pass.
VariationDesign ==
    /\ pc = "design_round"
    /\ variant_j < settings.variants
    /\ IF RandomIntegersRaises(settings, input.area)
       THEN /\ pc' = "error"
            /\ err' = "ValueError"
            /\ UNCHANGED <<rnd, random_settings, variants_design, variant_j>>
       ELSE LET d == variation_design_draws(settings, input.area, rnd)
            IN  /\ rnd' = d.rnd
                /\ random_settings' = d.random_settings
                /\ IF "max_slope" \in DOMAIN settings
                   THEN /\ pc' = "resample"
                        /\ UNCHANGED <<variants_design, variant_j>>
                   ELSE /\ variants_design'
                               = Append(variants_design, d.random_settings)
                        /\ variant_j' = variant_j + 1
                        /\ pc' = "design_round"
                /\ err' = err
    /\ UNCHANGED <<nodes, edges, settings, i, variants_uncertain, input, runs>>

\* One pass of the while loop of lines 157-162; on break, the return of
\* variation_design and the rest of the pass of lines 43-58.
ResampleMaxSlope ==
    /\ pc = "resample"
    /\ LET max_slope == choice(rnd, settings.max_slope)
           drawn == [random_settings EXCEPT !.max_slope = max_slope]
       IN  /\ rnd' = advance(rnd)
           /\ random_settings' = drawn
           /\ IF AcceptMaxSlope(max_slope, random_settings.min_slope)
              THEN /\ variants_design' = Append(variants_design, drawn)
                   /\ variant_j' = variant_j + 1
                   /\ pc' = "design_round"
              ELSE UNCHANGED <<pc, variants_design, variant_j>>
    /\ UNCHANGED <<nodes, edges, settings, i, err, variants_uncertain, input,
                   runs>>

\* Lines 64-68: design_choice returns the dict of the chosen variant, and
\* settings_uncertainty adds its two keys to that same dict.
DesignChoice ==
    /\ pc = "design_round"
    /\ variant_j = settings.variants
    /\ LET settings_design == variants_design[input.favourite]
           chosen == settings_uncertainty(settings_design, input.peak_rain,
                                          input.perc_inp)
       IN  /\ settings' = chosen
           /\ variants_design'
                  = [variants_design EXCEPT ![input.favourite] = chosen]
    /\ variants_uncertain' = <<>>
    /\ variant_j' = 0
    /\ pc' = "uncertainty_round"
    /\ UNCHANGED <<nodes, edges, i, err, rnd, random_settings, input, runs>>

\* One pass of the loop of lines 69-88: variation_uncertainty, and the
\* splitter whose result is assigned to nodes and edges.
VariationUncertainty ==
    /\ pc = "uncertainty_round"
    /\ variant_j < settings.variants
    /\ LET u == variation_uncertainty(settings, rnd)
           split == splitter(nodes, edges, u.random_settings.spacing)
       IN  /\ rnd' = u.rnd
           /\ random_settings' = u.random_settings
           /\ variants_uncertain' = Append(variants_uncertain, u.random_settings)
           /\ nodes' = split.nodes
           /\ edges' = split.edges
    /\ variant_j' = variant_j + 1
    /\ UNCHANGED <<pc, settings, i, err, variants_design, input, runs>>

\* Lines 95-97: multiple_variant returns; runs keeps the parameter sets
\* that this execution sampled.
UncertainChoice ==
    /\ pc = "uncertainty_round"
    /\ variant_j = settings.variants
    /\ runs' = Append(runs, [design |-> variants_design,
                             uncertain |-> variants_uncertain])
    /\ pc' = "returned"
    /\ UNCHANGED <<nodes, edges, settings, i, err, rnd, random_settings,
                   variants_design, variants_uncertain, variant_j, input>>

\* multiple_variant is executed once more, with the same arguments and
\* the same answers of the user.
ExecuteAgain ==
    /\ pc = "returned"
    /\ Len(runs) < MaxExecutions
    /\ pc' = "multiple_variant"
    /\ UNCHANGED <<nodes, edges, settings, i, err, sampler>>

NextVariant ==
    \/ MultipleVariant
    \/ VariationDesign
    \/ ResampleMaxSlope
    \/ DesignChoice
    \/ VariationUncertainty
    \/ UncertainChoice
    \/ ExecuteAgain

SpecVariant == InitVariant /\ [][NextVariant]_vars

\* One call of variation_design, with one candidate for every parameter but
\* the slopes and the overflows.  The program is sequential and runs on: a
\* step that can be taken is taken.
InitDesign ==
    /\ InitVariant
    /\ input.settings.variants = 1
    /\ Len(input.settings.spacing) = 1
    /\ Len(input.settings.outfalls) = 1
    /\ Len(input.settings.min_depth) = 1

NextDesign ==
    \/ MultipleVariant
    \/ VariationDesign
    \/ ResampleMaxSlope

SpecDesign == InitDesign /\ [][NextDesign]_vars /\ WF_vars(NextDesign)

----------------------------------------------------------------------------
\* diameter_calc as a function of the flow column and the catalog, in both
\* revisions.

FlowTable(flows) ==
    [k \in DOMAIN flows |->
        [from |-> k - 1, to |-> k, length |-> 1, flow |-> flows[k],
         diameter |-> NoDiameter]]

InitDiam ==
    /\ pc = "diameter_calc"
    /\ i = 0
    /\ err = "none"
    /\ SamplerIdle
    /\ \E m \in 1..MaxConduits :
         /\ nodes = NodeTable(m + 1)
         /\ \E flows \in [1..m -> 0..MaxFlow] : edges = FlowTable(flows)
    /\ settings \in [diam_list : Catalogs]

DiameterCalcAPDUDS ==
    /\ pc = "diameter_calc"
    /\ edges' = diameter_calc_APDUDS(edges, settings.diam_list)
    /\ pc' = "done_APDUDS"
    /\ UNCHANGED <<nodes, settings, i, err, sampler>>

NextDiam ==
    \/ DiameterCalc
    \/ DiameterCalcAPDUDS

SpecDiam == InitDiam /\ [][NextDiam]_vars

----------------------------------------------------------------------------
\* Properties.

\* flow_and_height has returned its tables.
FlowAndHeightDone == pc \in {"flow_amount", "diameter_calc", "done"}

\* flow_amount has returned its tables.
FlowAmountDone == pc \in {"diameter_calc", "done"}

Outfalls == Range(settings.outfalls)

OrdinaryNodes == NodeIds(nodes) \ Outfalls

\* p is a walk over existing conduits from n to a configured outfall.
LeadsToOutfall(n, p) ==
    /\ p # None
    /\ p[1] = n
    /\ \A k \in 1..(Len(p) - 1) : HasEdge(edges, p[k], p[k + 1])
    /\ p[Len(p)] \in Outfalls

\* C1: after flow_and_height on a connected graph with a non-empty outfall
\* set, every non-outfall node has a downstream_path that starts at the node,
\* follows existing conduits and ends at a configured outfall.
C1_PathsLeadToOutfall ==
    (FlowAndHeightDone /\ Connected(nodes, edges) /\ settings.outfalls # <<>>)
        => \A n \in OrdinaryNodes : LeadsToOutfall(n, nodes[n].path)

C1_Witness ==
    /\ FlowAndHeightDone
    /\ Connected(nodes, edges)
    /\ Len(settings.outfalls) = 2
    /\ \E n \in OrdinaryNodes : Len(nodes[n].path) >= 3
    /\ \E n \in OrdinaryNodes :
         nodes[n].path # None /\ nodes[n].path[Len(nodes[n].path)] = settings.outfalls[2]

\* C2: after flow_and_height every conduit, on a stored path or not, has
\* depth(to) >= depth(from) + min_slope * length.
C2_MinSlopeEveryConduit ==
    FlowAndHeightDone
        => \A k \in DOMAIN edges :
             nodes[edges[k].to].depth
                 >= nodes[edges[k].from].depth + settings.min_slope * edges[k].length

\* C3: with max_slope configured, after flow_and_height every conduit has
\* depth(to) - depth(from) <= max_slope * length.
C3_MaxSlopeEveryConduit ==
    (FlowAndHeightDone /\ "max_slope" \in DOMAIN settings)
        => \A k \in DOMAIN edges :
             nodes[edges[k].to].depth - nodes[edges[k].from].depth
                 <= settings.max_slope * edges[k].length

\* C4: no step of flow_and_height lowers the depth of a node, so no depth
\* ends below min_depth.
C4_DepthNeverLowered ==
    [][pc = "sweep" =>
         \A n \in NodeIds(nodes) : nodes'[n].depth >= nodes[n].depth]_vars

RECURSIVE SumOver(_, _)
SumOver(S, f) ==
    IF S = {} THEN 0
    ELSE LET x == CHOOSE y \in S : TRUE
         IN  f[x] + SumOver(S \ {x}, f)

Inflows == [n \in NodeIds(nodes) |-> nodes[n].inflow]

Flows == [k \in DOMAIN edges |-> edges[k].flow]

\* A connected network without a cycle.
IsTree(ns, es) == Connected(ns, es) /\ Len(es) = Cardinality(NodeIds(ns)) - 1

OutfallConduits ==
    {k \in DOMAIN edges : edges[k].from \in Outfalls \/ edges[k].to \in Outfalls}

\* C5: after flow_amount on a connected acyclic network the inflow of all
\* nodes sums to the flow of the conduits incident to an outfall.
C5_FlowConservation ==
    (FlowAmountDone /\ IsTree(nodes, edges))
        => SumOver(NodeIds(nodes), Inflows) = SumOver(OutfallConduits, Flows)

\* The path p passes through the conduit e, in either direction.
Traverses(p, e) ==
    \E j \in 1..(Len(p) - 1) : {p[j], p[j + 1]} = {e.from, e.to}

Contributors(e) == {n \in NodeIds(nodes) : Traverses(nodes[n].path, e)}

\* C6: after flow_amount the flow of a conduit is the sum of the inflow of
\* exactly the nodes whose stored path passes through it, 0 when there is none.
C6_FlowIsSumOfInflows ==
    FlowAmountDone
        => \A k \in DOMAIN edges :
             edges[k].flow = SumOver(Contributors(edges[k]), Inflows)

C6_Witness ==
    /\ FlowAmountDone
    /\ \E k \in DOMAIN edges :
         \E a, b \in Contributors(edges[k]) : nodes[a].inflow < nodes[b].inflow
    /\ \E k \in DOMAIN edges : Contributors(edges[k]) = {} /\ edges[k].flow = 0

\* The degree sweep has ended: every node is considered.
SweepDone == pc = "sweep" /\ AllConsidered(nodes)

\* C10: on a connected graph with one outfall, every node k on the stored
\* path of a node n has as its own stored path the suffix of n's path from k.
C10_SuffixProperty ==
    (SweepDone /\ Connected(nodes, edges) /\ Len(settings.outfalls) = 1)
        => \A n \in NodeIds(nodes) :
             \A k \in 1..Len(nodes[n].path) :
               nodes[nodes[n].path[k]].path = SubSeqFrom(nodes[n].path, k)

\* C11: during the sweep a node that has a stored path keeps it: no later
\* set_paths call changes it, also when a later routed path passes through
\* the node and continues differently.
C11_FirstWriteWins ==
    [][pc = "sweep" =>
         \A n \in NodeIds(nodes) :
           nodes[n].path # None => nodes'[n].path = nodes[n].path]_vars

\* A routed path went through a node that already had another continuation.
C11_Witness ==
    /\ SweepDone
    /\ \E n \in NodeIds(nodes) :
         \E k \in 2..Len(nodes[n].path) :
           /\ nodes[nodes[n].path[k]].path # None
           /\ nodes[nodes[n].path[k]].path # SubSeqFrom(nodes[n].path, k)

\* A non-outfall node that no conduit names.
IsolatedOrdinary ==
    \E n \in OrdinaryNodes : Connections(edges, n) = 0

\* C12: with an isolated non-outfall node in the graph, flow_and_height has
\* stopped with an error by the time the degree threshold has passed every
\* degree a node can have: it does not keep running.
C12_IsolatedNodeRaises ==
    (IsolatedOrdinary /\ i >= Cardinality(NodeIds(nodes))) => pc = "error"

\* C13: determine_path fails for a start node only when none of the targets
\* is reachable from it; with one reachable target it returns a path.
C13_FailsOnlyWhenNoTargetReachable ==
    (pc = "error" /\ err = "NetworkXNoPath")
        => \A k \in DOMAIN settings.outfalls :
             ~Reachable(edges, Min(LeafNodes), settings.outfalls[k])

\* The configured outfalls and overflows.
Targets == Range(settings.outfalls) \cup Range(settings.overflows)

\* The length of a shortest path from n to the nearest reachable member of T.
NearestDist(es, n, T) ==
    Min({Dist(es, n, t) : t \in {u \in T : Reachable(es, n, u)}})

\* C14: the path routed for the unconsidered node the solver processes is a
\* path of minimum total length from that node to the nearest member of the
\* union of the configured outfalls and overflows.
C14_RoutesToNearestOutfallOrOverflow ==
    [][(pc = "sweep" /\ pc' = "sweep" /\ nodes' # nodes) =>
         LET n == Min(LeafNodes)
             p == nodes'[n].path
         IN  /\ p # None
             /\ p[1] = n
             /\ p[Len(p)] \in Targets
             /\ \A k \in 1..(Len(p) - 1) : HasEdge(edges, p[k], p[k + 1])
             /\ PathLength(edges, p) = NearestDist(edges, n, Targets)]_vars

\* C15: on a connected graph with at least one outfall the degree sweep
\* ends, with every node considered.
C15_SweepTerminates ==
    (pc = "intialize" /\ Connected(nodes, edges) /\ settings.outfalls # <<>>)
        ~> SweepDone

C15_Witness ==
    /\ SweepDone
    /\ Connected(nodes, edges)
    /\ Len(settings.outfalls) = 2
    /\ i >= 2
    /\ Cardinality(NodeIds(nodes)) = MaxNodes

\* uphold_max_slope has just returned the node table.
UpholdMaxSlopeDone == pc = "reset_direction"

Depths(ns) == [n \in NodeIds(ns) |-> ns[n].depth]

C17_ResetDirectionOrdersByDepth ==
    [][(pc # "flow_amount" /\ pc' = "flow_amount") =>
         /\ Len(edges') = Len(edges)
         /\ \A k \in DOMAIN edges :
              /\ nodes'[edges'[k].from].depth <= nodes'[edges'[k].to].depth
              /\ {edges'[k].from, edges'[k].to} = {edges[k].from, edges[k].to}
              /\ edges'[k].length = edges[k].length]_vars

\* reset_direction has turned one conduit round (the conduit table lists
\* the lower index as "from") and left another as it was.
C17_Witness ==
    /\ pc = "flow_amount"
    /\ \E k \in DOMAIN edges :
         /\ edges[k].from > edges[k].to
         /\ nodes[edges[k].from].depth < nodes[edges[k].to].depth
    /\ \E k \in DOMAIN edges :
         /\ edges[k].from < edges[k].to
         /\ nodes[edges[k].from].depth < nodes[edges[k].to].depth

\* No candidate of the configured max_slope list passes the test of line 159
\* against the min_slope that was drawn.
NoMaxSlopeCandidate ==
    \A k \in DOMAIN settings.max_slope :
      ~AcceptMaxSlope(settings.max_slope[k], random_settings.min_slope)

\* C18: when no max_slope candidate exceeds the drawn min_slope, the
\* resampling loop of variation_design is left: it does not go on for ever.
C18_ResamplingStops ==
    (pc = "resample" /\ NoMaxSlopeCandidate) ~> (pc # "resample")

\* C19: every parameter set that variation_design returned for settings
\* with max_slope has a max_slope strictly greater than its min_slope.
C19_MaxSlopeAboveMinSlope ==
    \A k \in DOMAIN variants_design :
      "max_slope" \in DOMAIN variants_design[k]
          => variants_design[k].max_slope > variants_design[k].min_slope

\* A parameter set was returned although one of the max_slope candidates
\* does not exceed the min_slope that was drawn for it.
C19_Witness ==
    \E k \in DOMAIN variants_design :
      /\ "max_slope" \in DOMAIN variants_design[k]
      /\ \E c \in Range(input.settings.max_slope) :
           c <= variants_design[k].min_slope

\* C20: two executions of multiple_variant with the same arguments and the
\* same answers of the user sample, variant by variant, the same parameter
\* sets in the design round and in the uncertainty round.
C20_SamplerDeterministic ==
    \A a, b \in DOMAIN runs : runs[a] = runs[b]

\* Two executions have returned, each with two design variants that differ
\* and two uncertainty variants that differ.
C20_Witness ==
    /\ Len(runs) = MaxExecutions
    /\ Len(runs[2].design) = 2
    /\ runs[2].design[1].min_slope # runs[2].design[2].min_slope
    /\ runs[2].design[1].spacing # runs[2].design[2].spacing
    /\ runs[2].uncertain[1].peak_rain # runs[2].uncertain[2].peak_rain
    /\ "max_slope" \in DOMAIN input.settings

\* C21: in every pass of the uncertainty round of multiple_variant the
\* tables handed to splitter are the base network that multiple_variant was
\* called with, never the split result of an earlier pass.
C21_SplitsBaseNetwork ==
    (pc = "uncertainty_round" /\ variant_j < settings.variants)
        => (nodes = input.nodes /\ edges = input.edges)

\* A conduit names a node index that is not in the node table.
HasDanglingConduit ==
    \E k \in DOMAIN edges :
      edges[k].from \notin NodeIds(nodes) \/ edges[k].to \notin NodeIds(nodes)

\* C22: when a conduit names a node index that is not in the node table,
\* intialize fails with MalformedInput: flow_and_height does not get past it.
C22_DanglingConduitRaises ==
    (HasDanglingConduit /\ pc # "intialize")
        => (pc = "error" /\ err = "MalformedInput")

\* C23: with an empty list of outfalls flow_and_height fails with
\* MalformedInput at once: it is never in the degree sweep.
C23_EmptyOutfallsRaises ==
    (settings.outfalls = <<>> /\ pc # "intialize")
        => (pc = "error" /\ err = "MalformedInput")

\* A line graph: connected, without a cycle, no node on more than two conduits.
IsLine(ns, es) ==
    IsTree(ns, es) /\ \A n \in NodeIds(ns) : Connections(es, n) <= 2

\* The line graph has its one outfall at an end and no max_slope is set.
LineToFarOutfall ==
    /\ IsLine(nodes, edges)
    /\ "max_slope" \notin DOMAIN settings
    /\ Len(settings.outfalls) = 1
    /\ Connections(edges, settings.outfalls[1]) = 1
    /\ Cardinality(NodeIds(nodes)) >= 2

\* The line from its other end to the outfall.
Line ==
    LET leaf == CHOOSE n \in OrdinaryNodes : Connections(edges, n) = 1
    IN  CHOOSE p \in SimplePaths(edges, leaf, settings.outfalls[1]) : TRUE

\* C24: on a line graph whose far end is the only outfall, without max_slope,
\* flow_and_height gives the leaf the depth min_depth and every following
\* node the depth of the node before it plus min_slope * length.
C24_LineGraphDepths ==
    (FlowAndHeightDone /\ LineToFarOutfall)
        => /\ nodes[Line[1]].depth = settings.min_depth
           /\ \A k \in 1..(Len(Line) - 1) :
                nodes[Line[k + 1]].depth
                    = nodes[Line[k]].depth
                        + settings.min_slope
                            * edges[EdgeIndex(edges, Line[k], Line[k + 1])].length

\* Four nodes in a line, the outfall at the far end, conduits of two lengths.
C24_Witness ==
    /\ FlowAndHeightDone
    /\ LineToFarOutfall
    /\ Len(Line) = 4
    /\ \E a, b \in DOMAIN edges : edges[a].length # edges[b].length

\* C25: after flow_and_height every configured outfall has the stored path
\* that holds only the outfall itself, so that no later walk over the stored
\* paths fails.
C25_OutfallsHaveSelfPath ==
    /\ err # "TypeError"
    /\ FlowAndHeightDone
           => \A o \in Outfalls : nodes[o].path = <<o>>

\* C26: cleaner_and_trimmer removes no node and keeps every conduit whose
\* flow is positive: it removes a conduit only if no node with a positive
\* inflow has a stored path through it.
C26_TrimKeepsPositiveFlow ==
    [][(pc = "done" /\ pc' = "cleaned") =>
         /\ NodeIds(nodes') = NodeIds(nodes)
         /\ \A k \in DOMAIN edges :
              edges[k].flow > 0
                  => \E j \in DOMAIN edges' :
                       {edges'[j].from, edges'[j].to}
                           = {edges[k].from, edges[k].to}]_vars

\* The nodes that get their stored path in the step, and the start node of
\* the router call of the step: the one that gets the whole routed path.
Routed == {n \in NodeIds(nodes) : nodes[n].path = None /\ nodes'[n].path # None}

RouterStart ==
    CHOOSE n \in Routed :
      \A m \in Routed : Len(nodes'[n].path) >= Len(nodes'[m].path)

\* C27: the start node of every router call was unconsidered, and so on no
\* earlier path; it has the degree of the current threshold, no unconsidered
\* node has a smaller degree, or the same degree and a smaller index; and a
\* considered node stays considered, so no node is a start twice.
C27_StartsInDegreeAndIndexOrder ==
    [][(pc = "sweep" /\ pc' = "sweep" /\ nodes' # nodes) =>
         /\ Routed # {}
         /\ ~nodes[RouterStart].considered
         /\ nodes[RouterStart].connections = i
         /\ \A m \in NodeIds(nodes) :
              ~nodes[m].considered
                  => \/ nodes[m].connections > i
                     \/ nodes[m].connections = i /\ m >= RouterStart
         /\ \A m \in NodeIds(nodes) :
              nodes[m].considered => nodes'[m].considered]_vars

\* A node of degree two or more was a start, and another node of the same
\* degree was not, because it lay on the path of an earlier start.
C27_Witness ==
    /\ SweepDone
    /\ \E n, m \in OrdinaryNodes :
         /\ n # m
         /\ nodes[n].connections >= 2
         /\ nodes[m].connections = nodes[n].connections
         /\ \A k \in NodeIds(nodes) \ {n} : n \notin Range(nodes[k].path)
         /\ \E k \in NodeIds(nodes) \ {m} : m \in Range(nodes[k].path)

\* The stored paths, each from its node to the end.
StoredPaths == {nodes[n].path : n \in NodeIds(nodes)}

\* C28: after flow_and_height, with max_slope or without, each node on a
\* stored path lies at least min_slope * length below the node before it.
C28_MinSlopeAlongStoredPaths ==
    FlowAndHeightDone
        => \A p \in StoredPaths :
             \A k \in 1..(Len(p) - 1) :
               nodes[p[k + 1]].depth - nodes[p[k]].depth
                   >= settings.min_slope
                        * edges[EdgeIndex(edges, p[k], p[k + 1])].length

\* C29: after flow_amount the flow does not decrease along a stored path:
\* of two conduits that follow each other on it, the second carries at least
\* the flow of the first.
C29_FlowGrowsDownstream ==
    FlowAmountDone
        => \A p \in StoredPaths :
             \A k \in 1..(Len(p) - 2) :
               edges[EdgeIndex(edges, p[k + 1], p[k + 2])].flow
                   >= edges[EdgeIndex(edges, p[k], p[k + 1])].flow

\* The nodes that splitter appended to the node table.
NewNodes == NodeIds(nodes) \ NodeIds(input.nodes)

\* The conduit table holds a conduit from a to b of the given length.
HasConduit(a, b, length) ==
    \E k \in DOMAIN edges :
      edges[k].from = a /\ edges[k].to = b /\ edges[k].length = length

\* The conduit e of the base network is replaced by a simple chain of
\* pieces conduits of equal length, from e.from through nodes that splitter
\* appended, each on these two conduits only, to e.to.
ReplacedByChain(e, pieces) ==
    \E c \in [1..(pieces - 1) -> NewNodes] :
      /\ \A a, b \in DOMAIN c : a # b => c[a] # c[b]
      /\ \A a \in DOMAIN c : Connections(edges, c[a]) = 2
      /\ \A t \in 1..pieces :
           \E length \in 1..e.length :
             /\ length * pieces = e.length
             /\ HasConduit(IF t = 1 THEN e.from ELSE c[t - 1],
                           IF t = pieces THEN e.to ELSE c[t], length)

\* C30: after splitter no conduit is longer than max_space; a conduit that
\* was longer is replaced by a simple chain of ceil(length / max_space)
\* conduits of equal length through appended nodes, every other conduit and
\* every node of the base network is as it was, and splitting the result
\* again at the same max_space changes nothing.
C30_SplitterChains ==
    pc = "split"
        => /\ \A k \in DOMAIN edges : edges[k].length <= settings.spacing
           /\ \A n \in NodeIds(input.nodes) :
                n \in NodeIds(nodes) /\ nodes[n] = input.nodes[n]
           /\ \A k \in DOMAIN input.edges :
                LET e == input.edges[k]
                IN  IF e.length <= settings.spacing
                    THEN HasConduit(e.from, e.to, e.length)
                    ELSE ReplacedByChain(e, Ceil(e.length, settings.spacing))
           /\ Len(edges) = Len(input.edges) + Cardinality(NewNodes)
           /\ splitter(nodes, edges, settings.spacing)
                  = [nodes |-> nodes, edges |-> edges]

\* One conduit was kept and another was split into conduits shorter than
\* the spacing, its length being no multiple of the spacing.
C30_Witness ==
    /\ pc = "split"
    /\ \E k \in DOMAIN input.edges :
         input.edges[k].length <= settings.spacing
    /\ \E k \in DOMAIN input.edges :
         /\ input.edges[k].length > settings.spacing
         /\ input.edges[k].length % settings.spacing # 0
    /\ Cardinality(NewNodes) >= 2

DiameterCalcDone == pc \in {"done", "done_APDUDS"}

\* The smallest catalog entry that is at least the required diameter.
SmallestSufficient(flow, diam_list) ==
    diam_list[Min({j \in DOMAIN diam_list : diam_list[j] * diam_list[j] >= flow})]

\* C7: in both revisions, a conduit with flow > 0 whose required diameter is
\* at most the catalog maximum gets the smallest entry >= the required
\* diameter, also when the required diameter is itself an entry.
C7_SmallestSufficientEntry ==
    DiameterCalcDone
        => \A k \in DOMAIN edges :
             (edges[k].flow > 0 /\ ~PreciseAboveLast(edges[k].flow, settings.diam_list))
                 => edges[k].diameter
                        = SmallestSufficient(edges[k].flow, settings.diam_list)

\* C8: for one catalog, a conduit with the smaller flow gets a diameter that
\* is at most the diameter of a conduit with the larger flow.
C8_DiameterMonotonic ==
    pc = "done"
        => \A a, b \in DOMAIN edges :
             edges[a].flow < edges[b].flow
                 => /\ edges[a].diameter # NoDiameter
                    /\ edges[b].diameter # NoDiameter
                    /\ edges[a].diameter <= edges[b].diameter

\* C9: diameter_calc gives every conduit a catalog entry: the smallest for
\* flow 0 and the largest when the required diameter exceeds every entry.
C9_DiameterAlwaysAssigned ==
    pc = "done"
        => \A k \in DOMAIN edges :
             /\ edges[k].diameter \in Range(settings.diam_list)
             /\ edges[k].flow = 0 => edges[k].diameter = settings.diam_list[1]
             /\ PreciseAboveLast(edges[k].flow, settings.diam_list)
                    => edges[k].diameter
                           = settings.diam_list[Len(settings.diam_list)]

====
